---------------------------- MODULE Spec2Model ----------------------------
(***************************************************************************)
(* KvaserLib.py: CANopen SDO client, CiA402 enable/disable sequences, the  *)
(* profile-velocity motion sequence and the heartbeat counter, together    *)
(* with the CAN channel and the drive they talk to.                        *)
(*                                                                         *)
(* The program is single threaded.  Every function is a frame (sdo, dr,    *)
(* mv, ft) with a position pc; a caller starts a callee by setting the     *)
(* callee's frame and takes its result when the callee's pc is "ret",      *)
(* "done" or "raise".  Time is in milliseconds, counted from the moment a  *)
(* polling loop computed its end_time.                                     *)
(***************************************************************************)
EXTENDS Integers, Sequences, FiniteSets, TLC

VARIABLES
    script,     \* the top-level calls still to be made (the caller's program)
    top,        \* the top-level call in progress and how it ended
    mv,         \* frame of move_motor_in_profile_velocity
    dr,         \* frame of enable_drive / disable_drive
    sdo,        \* frame of sdo_read_access / sdo_write_access
    ft,         \* frame of fetch_telegrams
    log,        \* frames handed to channel.write during the top-level call
    rxq,        \* frames received by the channel and not yet read
    drv,        \* the drive: its kind, its object dictionary
    errLeft,    \* transport errors the channel may still raise
    busLeft     \* unsolicited bus frames that may still arrive

vars == <<script, top, mv, dr, sdo, ft, log, rxq, drv, errLeft, busLeft>>

---------------------------------------------------------------------------
(* Bounds of the model.                                                    *)
MaxErr == 1
MaxBus == 2
MaxQueue == 2

(* Program constants.                                                      *)
PollTimeoutMs == 1000
HeartbeatNode == 127
ProfileVelocityMode == 3

NodeIds == {5, 127}
OtherNode == 9

---------------------------------------------------------------------------
(* A function's result: None is the empty tuple, a value v is <<v>>.       *)
None == <<>>
Some(v) == <<v>>
IsNone(r) == r = <<>>
ValueOf(r) == r[1]

(* Integer helpers: Python's &, >> on ints and int.from_bytes.             *)

RECURSIVE BitAnd(_, _)
BitAnd(a, b) ==
    IF a = 0 \/ b = 0 THEN 0
    ELSE (IF a % 2 = 1 /\ b % 2 = 1 THEN 1 ELSE 0)
         + 2 * BitAnd(a \div 2, b \div 2)

LowByte(x) == x % 256
HighByte(x) == (x \div 256) % 256

FromBytesLittle(bs) ==
    LET RECURSIVE le(_)
        le(s) == IF s = <<>> THEN 0 ELSE Head(s) + 256 * le(Tail(s))
    IN le(bs)

---------------------------------------------------------------------------
(* Frames.                                                                 *)

Frame(id, data) == [id |-> id, data |-> data]

ReadRequest(node_id, index, subindex) ==
    Frame(1536 + node_id,
          <<64, LowByte(index), HighByte(index), subindex, 0, 0, 0, 0>>)

WriteRequest(node_id, index, subindex, data) ==
    Frame(1536 + node_id,
          <<43, LowByte(index), HighByte(index), subindex,
            LowByte(data), HighByte(data), 0, 0>>)

ResponseId(cob_id) == cob_id - 128

DecodeValue(response) ==
    FromBytesLittle(SubSeq(response.data, 5, Len(response.data)))

(* What a frame on the bus is, read from its bytes.                        *)
FrameIndex(f) == f.data[2] + 256 * f.data[3]
IsReadReq(f) == f.data[1] = 64
IsWriteReq(f) == f.data[1] \in {43, 35}
FrameNode(f) == f.id - 1536

---------------------------------------------------------------------------
(* Object dictionary indices and controlword commands used by the code.    *)
Controlword == 24640        \* 0x6040
Statusword == 24641         \* 0x6041
ModeOfOperation == 24672    \* 0x6060
ModeDisplay == 24673        \* 0x6061
ProfileAccel == 24707       \* 0x6083
ProfileDecel == 24708       \* 0x6084
TargetVelocity == 24831     \* 0x60FF
FaultReset == 128           \* 0x80

Commands_Swapped == <<0, 7, 6, 15>>

(* Lines 95-100: the enable sequence.                                      *)
Commands == <<0, 6, 7, 15>>

---------------------------------------------------------------------------
(* The environment: the drive and the bus.                                 *)

(* Statuswords a drive may report (bit 9 remote set, voltage enabled):     *)
(* fault 0x218, fault reaction active 0x21F, switch on disabled 0x250,     *)
(* operation enabled 0x637.                                                *)
StatusVals == {536, 543, 592, 1591}

StoredIdx == {ProfileAccel, ProfileDecel, ModeOfOperation, ModeDisplay}

FreeVals(index) ==
    CASE index = Statusword -> StatusVals
      [] index \in {ProfileAccel, ProfileDecel} -> {1000, 2000}
      [] index = ModeDisplay -> {1, 3}
      [] OTHER -> {0}

Response(node_id, index, v) ==
    Frame(1408 + node_id,
          <<67, LowByte(index), HighByte(index), 0,
            LowByte(v), HighByte(v), (v \div 65536) % 256,
            (v \div 16777216) % 256>>)

WriteAck(node_id, index) ==
    Frame(1408 + node_id,
          <<96, LowByte(index), HighByte(index), 0, 0, 0, 0, 0>>)

(* The value a write request carries: 2 bytes under command 0x2B, 4 under  *)
(* 0x23.                                                                   *)
WrittenValue(f) ==
    IF f.data[1] = 43 THEN FromBytesLittle(SubSeq(f.data, 5, 6))
    ELSE FromBytesLittle(SubSeq(f.data, 5, 8))

StoreWrite(od, index, v) ==
    IF index = ModeOfOperation
    THEN [od EXCEPT ![ModeOfOperation] = v, ![ModeDisplay] = v]
    ELSE IF index \in StoredIdx THEN [od EXCEPT ![index] = v] ELSE od

(* The CiA402 state machine of a drive, as enable_drive and disable_drive  *)
(* expect it: the state names, the statusword each state shows (remote     *)
(* and voltage bits set as in StatusVals) and the transitions a            *)
(* controlword makes.                                                      *)
CiaStates ==
    {"SwitchOnDisabled", "ReadyToSwitchOn", "SwitchedOn", "OperationEnabled",
     "QuickStopActive", "FaultReactionActive", "Fault"}

StatusOf(state) ==
    CASE state = "SwitchOnDisabled" -> 592        \* 0x250
      [] state = "ReadyToSwitchOn" -> 561         \* 0x231
      [] state = "SwitchedOn" -> 563              \* 0x233
      [] state = "OperationEnabled" -> 1591       \* 0x637
      [] state = "QuickStopActive" -> 535         \* 0x217
      [] state = "FaultReactionActive" -> 543     \* 0x21F
      [] OTHER -> 536                             \* 0x218, Fault

(* The commands of the controlword: bits 0..3 and the fault reset bit 7.   *)
IsShutdown(cw) == BitAnd(cw, 7) = 6
IsSwitchOn(cw) == BitAnd(cw, 15) = 7
IsEnableOperation(cw) == BitAnd(cw, 15) = 15
IsDisableVoltage(cw) == BitAnd(cw, 2) = 0
IsQuickStop(cw) == BitAnd(cw, 6) = 2
IsFaultResetEdge(prev, cw) == BitAnd(prev, 128) = 0 /\ BitAnd(cw, 128) = 128

(* The states a controlword leads through, in order; <<>> when the drive   *)
(* stays where it is.                                                      *)
CiaPath(state, prev, cw) ==
    CASE state = "SwitchOnDisabled" ->
            IF IsShutdown(cw) THEN <<"ReadyToSwitchOn">> ELSE <<>>
      [] state = "ReadyToSwitchOn" ->
            IF IsDisableVoltage(cw) \/ IsQuickStop(cw) THEN <<"SwitchOnDisabled">>
            ELSE IF IsEnableOperation(cw) THEN <<"SwitchedOn", "OperationEnabled">>
            ELSE IF IsSwitchOn(cw) THEN <<"SwitchedOn">>
            ELSE <<>>
      [] state = "SwitchedOn" ->
            IF IsDisableVoltage(cw) \/ IsQuickStop(cw) THEN <<"SwitchOnDisabled">>
            ELSE IF IsEnableOperation(cw) THEN <<"OperationEnabled">>
            ELSE IF IsShutdown(cw) THEN <<"ReadyToSwitchOn">>
            ELSE <<>>
      [] state = "OperationEnabled" ->
            IF IsDisableVoltage(cw) THEN <<"SwitchOnDisabled">>
            ELSE IF IsQuickStop(cw) THEN <<"QuickStopActive">>
            ELSE IF IsShutdown(cw) THEN <<"ReadyToSwitchOn">>
            ELSE IF IsSwitchOn(cw) THEN <<"SwitchedOn">>
            ELSE <<>>
      [] state = "QuickStopActive" ->
            IF IsDisableVoltage(cw) THEN <<"SwitchOnDisabled">> ELSE <<>>
      [] state = "Fault" ->
            IF IsFaultResetEdge(prev, cw) THEN <<"SwitchOnDisabled">> ELSE <<>>
      [] OTHER -> <<>>

(* The drive keeps the last SeenLen states it entered.                     *)
SeenLen == 4
KeepLast(q) == IF Len(q) <= SeenLen THEN q ELSE SubSeq(q, Len(q) - SeenLen + 1, Len(q))

(* A controlword with the fault reset bit set and bits 0..3 clear, in a    *)
(* state other than Fault, is to some drives a disable voltage command     *)
(* and to others no command at all.                                        *)
CiaControl(d, cw) ==
    LET path == CiaPath(d.state, d.cw, cw)
        moved == [d EXCEPT !.cw = cw,
                           !.state = IF path = <<>> THEN @ ELSE path[Len(path)],
                           !.seen = KeepLast(@ \o path)]
    IN {moved} \cup (IF BitAnd(cw, 128) = 128 /\ d.state # "Fault"
                     THEN {[d EXCEPT !.cw = cw]} ELSE {})

(* The fault reaction ends by itself, in Fault.                            *)
CiaSettled(d) ==
    {d} \cup (IF d.state = "FaultReactionActive"
              THEN {[d EXCEPT !.state = "Fault", !.seen = KeepLast(Append(@, "Fault"))]}
              ELSE {})

(* The "cia402" drive answers every read, with its statusword or with what *)
(* it stores, and obeys every controlword write.                           *)
CiaReplies(d0, f) ==
    LET n == FrameNode(f)
        i == FrameIndex(f)
    IN IF IsReadReq(f)
       THEN {<<d, <<Response(n, i, IF i = Statusword THEN StatusOf(d.state)
                                  ELSE IF i \in StoredIdx THEN d.od[i] ELSE 0)>>>> :
                d \in CiaSettled(d0)}
       ELSE {<<d2, IF d2.acks THEN <<WriteAck(n, i)>> ELSE <<>>>> :
                d2 \in UNION {IF i = Controlword
                              THEN CiaControl(d, WrittenValue(f))
                              ELSE {[d EXCEPT !.od = StoreWrite(d.od, i, WrittenValue(f))]} :
                              d \in CiaSettled(d0)}}

(* The drive's reactions to a request frame it received: the set of        *)
(* <<drive afterwards, frames it sends back>>.  A "free" drive answers a   *)
(* read with any value or not at all; a "store" drive keeps what was       *)
(* written and answers every read, with the stored value where it stores.  *)
DriveReplies(d, f) ==
    LET n == FrameNode(f)
        i == FrameIndex(f)
    IN IF d.kind = "cia402" THEN CiaReplies(d, f)
       ELSE IF IsReadReq(f)
       THEN IF d.kind = "store" /\ i \in StoredIdx
            THEN {<<d, <<Response(n, i, d.od[i])>>>>}
            ELSE {<<d, <<Response(n, i, v)>>>> : v \in FreeVals(i)}
                 \cup (IF d.kind = "free" THEN {<<d, <<>>>>} ELSE {})
       ELSE LET d2 == IF d.kind = "store"
                      THEN [d EXCEPT !.od = StoreWrite(d.od, i, WrittenValue(f))]
                      ELSE d
            IN {<<d2, IF d.acks THEN <<WriteAck(n, i)>> ELSE <<>>>>}

(* The channel's receive buffer holds MaxQueue frames; a frame arriving    *)
(* at a full buffer is lost.                                               *)
RECURSIVE Enqueue(_, _)
Enqueue(q, fs) ==
    IF fs = <<>> THEN q
    ELSE Enqueue(IF Len(q) < MaxQueue THEN Append(q, Head(fs)) ELSE q, Tail(fs))

Heartbeat(node_id) == Frame(1792 + node_id, <<5>>)

(* Frames of the bus that answer no request of the program.                *)
BusFrames(node_id) ==
    {Heartbeat(node_id), Heartbeat(HeartbeatNode),
     Response(OtherNode, Statusword, 1591)}

FrameDelays == {1, 1000}

(* channel.read(timeout=1000): a frame (the oldest buffered one, or a bus  *)
(* frame that came in before it), CanNoMsg after the timeout when nothing  *)
(* is buffered, or a CanlibException.                                      *)
ChannelRead(node_id) ==
    {[kind |-> "frame", f |-> Head(rxq), d |-> d, q |-> Tail(rxq),
      bus |-> busLeft, err |-> errLeft] : d \in IF rxq # <<>> THEN FrameDelays ELSE {}}
    \cup
    {[kind |-> "frame", f |-> f, d |-> d, q |-> rxq,
      bus |-> busLeft - 1, err |-> errLeft] :
        f \in IF busLeft > 0 THEN BusFrames(node_id) ELSE {}, d \in FrameDelays}
    \cup
    (IF rxq = <<>>
     THEN {[kind |-> "nomsg", f |-> Frame(0, <<>>), d |-> PollTimeoutMs, q |-> rxq,
            bus |-> busLeft, err |-> errLeft]}
     ELSE {})
    \cup
    (IF errLeft > 0
     THEN {[kind |-> "error", f |-> Frame(0, <<>>), d |-> 1, q |-> rxq,
            bus |-> busLeft, err |-> errLeft - 1]}
     ELSE {})

(* channel.write(frame): TRUE when the frame went out, FALSE when it       *)
(* raised a CanlibException.                                               *)
ChannelWrite == {TRUE} \cup (IF errLeft > 0 THEN {FALSE} ELSE {})

---------------------------------------------------------------------------
(* Frames of the program's functions.                                      *)

SdoIdle ==
    [fn |-> "none", pc |-> "idle", caller |-> "none", node |-> 0, index |-> 0,
     sub |-> 0, data |-> 0, timeout |-> 0, now |-> 0, polled |-> 0,
     sends |-> 0, recvs |-> 0, rcvd |-> <<>>, q0 |-> <<>>, fail |-> "no",
     ret |-> None]

(* sdo_read_access(channel, node_id, index, subindex, timeout_ms) entered. *)
SdoReadCall(caller, node_id, index, subindex, timeout_ms) ==
    [SdoIdle EXCEPT !.fn = "read", !.pc = "send", !.caller = caller,
                    !.node = node_id, !.index = index, !.sub = subindex,
                    !.timeout = timeout_ms]

(* sdo_write_access(channel, node_id, index, subindex, data, timeout_ms)   *)
(* entered; q0 is the receive buffer as the call found it.                 *)
SdoWriteCall(caller, node_id, index, subindex, data, timeout_ms) ==
    [SdoIdle EXCEPT !.fn = "write", !.pc = "send", !.caller = caller,
                    !.node = node_id, !.index = index, !.sub = subindex,
                    !.data = data, !.timeout = timeout_ms, !.q0 = rxq]

SdoReturned(caller) == sdo.pc = "ret" /\ sdo.caller = caller

FtIdle ==
    [pc |-> "idle", caller |-> "none", duration |-> 0, now |-> 0, count |-> 0,
     rcvd |-> <<>>, nomsgs |-> 0, errs |-> 0, ret |-> None]

(* fetch_telegrams(channel, duration_seconds) entered: end_time computed,  *)
(* received_heartbeat_count = 0.                                           *)
FetchCall(caller, duration_seconds) ==
    [FtIdle EXCEPT !.pc = "poll", !.caller = caller, !.duration = duration_seconds]

DrIdle ==
    [fn |-> "none", pc |-> "idle", caller |-> "none", node |-> 0, timeout |-> 0,
     first |-> None, i |-> 0, base |-> 0]

MvIdle ==
    [pc |-> "idle", current_accel |-> None, mode_of_operation |-> None]

NoCall ==
    [fn |-> "none", node |-> 0, index |-> 0, data |-> 0, timeout |-> 0,
     speed |-> 0, accel |-> 0, decel |-> 0, disable_after |-> FALSE,
     duration |-> 0]

---------------------------------------------------------------------------
(* sdo_read_access                                                         *)

(* Lines 16-27 and 40-44: build the request, channel.write it; on success  *)
(* compute end_time, on CanlibException print and return None.             *)
SdoReadSend ==
    /\ sdo.fn = "read" /\ sdo.pc = "send"
    /\ LET frame == ReadRequest(sdo.node, sdo.index, sdo.sub)
       IN /\ log' = Append(log, frame)
          /\ \E ok \in ChannelWrite :
                IF ok
                THEN \E r \in DriveReplies(drv, frame) :
                        /\ drv' = r[1]
                        /\ rxq' = Enqueue(rxq, r[2])
                        /\ sdo' = [sdo EXCEPT !.pc = "poll", !.now = 0,
                                              !.sends = @ + 1]
                        /\ errLeft' = errLeft
                ELSE /\ sdo' = [sdo EXCEPT !.pc = "ret", !.ret = None,
                                           !.fail = "send", !.sends = @ + 1]
                     /\ errLeft' = errLeft - 1
                     /\ UNCHANGED <<drv, rxq>>
    /\ UNCHANGED <<script, top, mv, dr, ft, busLeft>>

Matches_AnyId(response, cob_id) == response.id >= ResponseId(cob_id)

(* Line 31: the response id test.                                          *)
Matches(response, cob_id) == response.id = ResponseId(cob_id)

(* Lines 31-34: a frame was read; sdo_read_access returns the value of a   *)
(* matching one and drops any other.                                       *)
OnFrame(s, out) ==
    IF Matches(out.f, 1536 + s.node)
    THEN [s EXCEPT !.pc = "ret", !.ret = Some(DecodeValue(out.f)),
                   !.polled = s.now, !.now = @ + out.d, !.recvs = @ + 1,
                   !.rcvd = Append(@, out.f)]
    ELSE [s EXCEPT !.polled = s.now, !.now = @ + out.d, !.recvs = @ + 1,
                   !.rcvd = Append(@, out.f)]

OnNoMsg_Breaks(s, out) ==
    [s EXCEPT !.pc = "ret", !.ret = None, !.polled = s.now, !.now = @ + out.d,
              !.recvs = @ + 1]

(* Lines 35-36: CanNoMsg, continue.                                        *)
OnNoMsg(s, out) ==
    [s EXCEPT !.polled = s.now, !.now = @ + out.d, !.recvs = @ + 1]

OnError_Continues(s, out) ==
    [s EXCEPT !.fail = "recv", !.polled = s.now, !.now = @ + out.d,
              !.recvs = @ + 1]

(* Lines 37-39 and 43-44: CanlibException, break, return None.             *)
OnError(s, out) ==
    [s EXCEPT !.pc = "ret", !.ret = None, !.fail = "recv",
              !.polled = s.now, !.now = @ + out.d, !.recvs = @ + 1]

(* Lines 28-39 and 43-44: one turn of the polling loop.  polled is the     *)
(* time at which the latest channel.read began.                            *)
SdoReadPoll ==
    /\ sdo.fn = "read" /\ sdo.pc = "poll"
    /\ IF sdo.now < sdo.timeout
       THEN \E out \in ChannelRead(sdo.node) :
              /\ rxq' = out.q /\ busLeft' = out.bus /\ errLeft' = out.err
              /\ sdo' = CASE out.kind = "frame" -> OnFrame(sdo, out)
                          [] out.kind = "nomsg" -> OnNoMsg(sdo, out)
                          [] OTHER -> OnError(sdo, out)
       ELSE /\ sdo' = [sdo EXCEPT !.pc = "ret", !.ret = None]
            /\ UNCHANGED <<rxq, busLeft, errLeft>>
    /\ UNCHANGED <<script, top, mv, dr, ft, log, drv>>

---------------------------------------------------------------------------
(* sdo_write_access                                                        *)

WriteLeaves_AwaitsConfirmation(q) == IF q = <<>> THEN q ELSE Tail(q)

(* Lines 63-67: sdo_write_access never calls channel.read, so the receive  *)
(* buffer keeps every frame that is or comes in.                           *)
WriteLeaves(q) == q

(* Lines 57-67: build the request, channel.write it once, return.          *)
SdoWriteSend ==
    /\ sdo.fn = "write" /\ sdo.pc = "send"
    /\ LET frame == WriteRequest(sdo.node, sdo.index, sdo.sub, sdo.data)
       IN /\ log' = Append(log, frame)
          /\ \E ok \in ChannelWrite :
                IF ok
                THEN \E r \in DriveReplies(drv, frame) :
                        /\ drv' = r[1]
                        /\ rxq' = WriteLeaves(Enqueue(rxq, r[2]))
                        /\ sdo' = [sdo EXCEPT !.pc = "ret", !.sends = @ + 1]
                        /\ errLeft' = errLeft
                ELSE /\ sdo' = [sdo EXCEPT !.pc = "ret", !.fail = "send",
                                           !.sends = @ + 1]
                     /\ errLeft' = errLeft - 1
                     /\ UNCHANGED <<drv, rxq>>
    /\ UNCHANGED <<script, top, mv, dr, ft, busLeft>>

---------------------------------------------------------------------------
(* fetch_telegrams                                                         *)

IsHeartbeat_AnyNode(frame) == frame.id > 1792 /\ frame.id <= 1792 + 127

(* Line 224: the heartbeat test.                                           *)
IsHeartbeat(frame) == frame.id = 1792 + HeartbeatNode

WindowOpen_UntilHeartbeat(f) == f.now < f.duration * 1000 /\ f.count = 0

(* Line 219: while time.time() < end_time.                                 *)
WindowOpen(f) == f.now < f.duration * 1000

(* Line 233: the count is printed; the function ends without a return      *)
(* statement, so its caller gets None.                                     *)
FetchResult(count) == None

(* Lines 219-233: one turn of the loop.  CanNoMsg and CanlibException both *)
(* lead to the next turn; nomsgs and errs count them.                      *)
FetchPoll ==
    /\ ft.pc = "poll"
    /\ IF WindowOpen(ft)
       THEN \E out \in ChannelRead(top.call.node) :
              /\ rxq' = out.q /\ busLeft' = out.bus /\ errLeft' = out.err
              /\ ft' =
                   IF out.kind = "frame"
                   THEN [ft EXCEPT !.now = @ + out.d,
                                   !.rcvd = Append(@, out.f.id),
                                   !.count = IF IsHeartbeat(out.f)
                                             THEN @ + 1 ELSE @]
                   ELSE IF out.kind = "nomsg"
                   THEN [ft EXCEPT !.now = @ + out.d, !.nomsgs = @ + 1]
                   ELSE [ft EXCEPT !.now = @ + out.d, !.errs = @ + 1]
       ELSE /\ ft' = [ft EXCEPT !.pc = "done", !.ret = FetchResult(ft.count)]
            /\ UNCHANGED <<rxq, busLeft, errLeft>>
    /\ UNCHANGED <<script, top, mv, dr, sdo, log, drv>>

---------------------------------------------------------------------------
(* enable_drive and disable_drive                                          *)

(* enable_drive / disable_drive entered; base is where the call's frames   *)
(* begin in log.                                                           *)
DriveCall(caller, fn, node_id, timeout_ms) ==
    [DrIdle EXCEPT !.fn = fn, !.pc = "start", !.caller = caller,
                   !.node = node_id, !.timeout = timeout_ms, !.base = Len(log)]

DriveFinished(caller) == dr.caller = caller /\ dr.pc \in {"done", "raise"}

ReadStatusword(caller, node_id, timeout_ms) ==
    SdoReadCall(caller, node_id, Statusword, 0, timeout_ms)

WriteControlword_LowBits(node_id, command, timeout_ms) ==
    SdoWriteCall("drive", node_id, Controlword, 0, BitAnd(command, 7), timeout_ms)

(* Lines 88, 104, 129 and 137: a write to the controlword.                 *)
WriteControlword(node_id, command, timeout_ms) ==
    SdoWriteCall("drive", node_id, Controlword, 0, command, timeout_ms)

(* Lines 83 and 124: fault reaction active.                                *)
IsFaultReactionActive(read_data) == BitAnd(read_data, 79) = 15

IsFault_NoMask(read_data) == read_data % 256 = 8

(* Lines 85 and 126: fault.                                                *)
IsFault(read_data) == BitAnd(read_data, 79) = 8

(* Lines 80 and 121: the first statusword read.                            *)
DrvStart ==
    /\ dr.pc = "start"
    /\ sdo' = ReadStatusword("drive", dr.node, dr.timeout)
    /\ dr' = [dr EXCEPT !.pc = "chk"]
    /\ UNCHANGED <<script, top, mv, ft, log, rxq, drv, errLeft, busLeft>>

(* Lines 94-104 (enable) and 135-137 (disable): what follows the fault     *)
(* check, whatever it found: the first command of the sequence.            *)
Proceed(d) ==
    IF d.fn = "enable"
    THEN /\ dr' = [d EXCEPT !.pc = "cmdw", !.i = 1]
         /\ sdo' = WriteControlword(d.node, Commands[1], d.timeout)
    ELSE /\ dr' = [d EXCEPT !.pc = "disw"]
         /\ sdo' = WriteControlword(d.node, 0, d.timeout)

(* Lines 81-88 and 122-129: the fault check on the first statusword.       *)
(* dr.first keeps the value read.                                          *)
DrvCheckFault ==
    /\ dr.pc = "chk" /\ SdoReturned("drive")
    /\ LET read_data == sdo.ret
           d == [dr EXCEPT !.first = read_data]
       IN IF ~IsNone(read_data)
             /\ ~IsFaultReactionActive(ValueOf(read_data))
             /\ IsFault(ValueOf(read_data))
          THEN /\ dr' = [d EXCEPT !.pc = "reset"]
               /\ sdo' = WriteControlword(dr.node, FaultReset, dr.timeout)
          ELSE Proceed(d)
    /\ UNCHANGED <<script, top, mv, ft, log, rxq, drv, errLeft, busLeft>>

(* Lines 89-90 and 130-131: settle, re-read the statusword.                *)
DrvAfterReset ==
    /\ dr.pc = "reset" /\ SdoReturned("drive")
    /\ sdo' = ReadStatusword("drive", dr.node, dr.timeout)
    /\ dr' = [dr EXCEPT !.pc = "reread"]
    /\ UNCHANGED <<script, top, mv, ft, log, rxq, drv, errLeft, busLeft>>

(* Lines 91-92 and 132-133: read_data & 0x4F with read_data None raises    *)
(* TypeError; otherwise the result is only printed.                        *)
DrvRecheck ==
    /\ dr.pc = "reread" /\ SdoReturned("drive")
    /\ IF IsNone(sdo.ret)
       THEN /\ dr' = [dr EXCEPT !.pc = "raise"]
            /\ sdo' = SdoIdle
       ELSE Proceed(dr)
    /\ UNCHANGED <<script, top, mv, ft, log, rxq, drv, errLeft, busLeft>>

(* Lines 105-106: settle, read the statusword after a command.             *)
EnableSettle ==
    /\ dr.fn = "enable" /\ dr.pc = "cmdw" /\ SdoReturned("drive")
    /\ sdo' = ReadStatusword("drive", dr.node, dr.timeout)
    /\ dr' = [dr EXCEPT !.pc = "cmdr"]
    /\ UNCHANGED <<script, top, mv, ft, log, rxq, drv, errLeft, busLeft>>

(* Lines 102-104 and 108: the next command, or the end of the loop.        *)
EnableLoop ==
    /\ dr.fn = "enable" /\ dr.pc = "cmdr" /\ SdoReturned("drive")
    /\ IF dr.i < Len(Commands)
       THEN /\ dr' = [dr EXCEPT !.pc = "cmdw", !.i = @ + 1]
            /\ sdo' = WriteControlword(dr.node, Commands[dr.i + 1], dr.timeout)
       ELSE /\ dr' = [dr EXCEPT !.pc = "done"]
            /\ sdo' = SdoIdle
    /\ UNCHANGED <<script, top, mv, ft, log, rxq, drv, errLeft, busLeft>>

(* Lines 138-139: settle, re-read the statusword.                          *)
DisableSettle ==
    /\ dr.fn = "disable" /\ dr.pc = "disw" /\ SdoReturned("drive")
    /\ sdo' = ReadStatusword("drive", dr.node, dr.timeout)
    /\ dr' = [dr EXCEPT !.pc = "disr"]
    /\ UNCHANGED <<script, top, mv, ft, log, rxq, drv, errLeft, busLeft>>

(* Lines 140-144: the value is only printed; return.                       *)
DisableDone ==
    /\ dr.fn = "disable" /\ dr.pc = "disr" /\ SdoReturned("drive")
    /\ dr' = [dr EXCEPT !.pc = "done"]
    /\ sdo' = SdoIdle
    /\ UNCHANGED <<script, top, mv, ft, log, rxq, drv, errLeft, busLeft>>

---------------------------------------------------------------------------
(* move_motor_in_profile_velocity                                          *)

Arg == top.call

MoveRead(index) == SdoReadCall("move", Arg.node, index, 0, Arg.timeout)
MoveWrite(index, data) == SdoWriteCall("move", Arg.node, index, 0, data, Arg.timeout)
MoveDrive(fn) == DriveCall("move", fn, Arg.node, Arg.timeout)

(* An exception of the callee leaves move_motor_in_profile_velocity too.   *)
MoveRaise ==
    /\ mv' = [mv EXCEPT !.pc = "raise"]
    /\ dr' = DrIdle
    /\ UNCHANGED <<sdo, ft>>

(* Line 172: read the current acceleration.                                *)
MoveReadAccel ==
    /\ mv.pc = "start"
    /\ sdo' = MoveRead(ProfileAccel)
    /\ mv' = [mv EXCEPT !.pc = "rdA"]
    /\ UNCHANGED <<script, top, dr, ft, log, rxq, drv, errLeft, busLeft>>

(* Line 173: read the current deceleration.                                *)
MoveReadDecel ==
    /\ mv.pc = "rdA" /\ SdoReturned("move")
    /\ sdo' = MoveRead(ProfileDecel)
    /\ mv' = [mv EXCEPT !.pc = "rdD", !.current_accel = sdo.ret]
    /\ UNCHANGED <<script, top, dr, ft, log, rxq, drv, errLeft, busLeft>>

(* Line 176: current_accel != accel or current_decel != decel.             *)
ProfileDiffers(current_accel, current_decel, accel, decel) ==
    current_accel # Some(accel) \/ current_decel # Some(decel)

(* Lines 176-177 and 182: disable when the profile differs, else go on to  *)
(* the mode of operation.  current_accel is not read after line 176 and    *)
(* is dropped here.                                                        *)
MoveCheckProfile ==
    /\ mv.pc = "rdD" /\ SdoReturned("move")
    /\ IF ProfileDiffers(mv.current_accel, sdo.ret, Arg.accel, Arg.decel)
       THEN /\ dr' = MoveDrive("disable")
            /\ sdo' = SdoIdle
            /\ mv' = [mv EXCEPT !.pc = "dis1", !.current_accel = None]
       ELSE /\ sdo' = MoveRead(ModeDisplay)
            /\ mv' = [mv EXCEPT !.pc = "rdM", !.current_accel = None]
            /\ dr' = dr
    /\ UNCHANGED <<script, top, ft, log, rxq, drv, errLeft, busLeft>>

(* Line 178: write the acceleration.                                       *)
MoveWriteAccel ==
    /\ mv.pc = "dis1" /\ DriveFinished("move")
    /\ IF dr.pc = "raise" THEN MoveRaise
       ELSE /\ sdo' = MoveWrite(ProfileAccel, Arg.accel)
            /\ mv' = [mv EXCEPT !.pc = "wA"]
            /\ dr' = DrIdle
            /\ ft' = ft
    /\ UNCHANGED <<script, top, log, rxq, drv, errLeft, busLeft>>

(* Line 179: write the deceleration.                                       *)
MoveWriteDecel ==
    /\ mv.pc = "wA" /\ SdoReturned("move")
    /\ sdo' = MoveWrite(ProfileDecel, Arg.decel)
    /\ mv' = [mv EXCEPT !.pc = "wD"]
    /\ UNCHANGED <<script, top, dr, ft, log, rxq, drv, errLeft, busLeft>>

(* Line 182, after the writes: read the mode of operation display.         *)
MoveReadMode ==
    /\ mv.pc = "wD" /\ SdoReturned("move")
    /\ sdo' = MoveRead(ModeDisplay)
    /\ mv' = [mv EXCEPT !.pc = "rdM"]
    /\ UNCHANGED <<script, top, dr, ft, log, rxq, drv, errLeft, busLeft>>

(* Line 183: mode_of_operation != 3.                                       *)
ModeDiffers(mode_of_operation) == mode_of_operation # Some(ProfileVelocityMode)

(* Lines 183-184 and 189: disable when the mode differs, else read the     *)
(* statusword.                                                             *)
MoveCheckMode ==
    /\ mv.pc = "rdM" /\ SdoReturned("move")
    /\ IF ModeDiffers(sdo.ret)
       THEN /\ dr' = MoveDrive("disable")
            /\ sdo' = SdoIdle
            /\ mv' = [mv EXCEPT !.pc = "dis2", !.mode_of_operation = sdo.ret]
       ELSE /\ sdo' = ReadStatusword("move", Arg.node, Arg.timeout)
            /\ mv' = [mv EXCEPT !.pc = "rdS", !.mode_of_operation = sdo.ret]
            /\ dr' = dr
    /\ UNCHANGED <<script, top, ft, log, rxq, drv, errLeft, busLeft>>

(* Lines 185 and 155-156: set_cia402_mode_of_operation(3).                 *)
MoveSetMode ==
    /\ mv.pc = "dis2" /\ DriveFinished("move")
    /\ IF dr.pc = "raise" THEN MoveRaise
       ELSE /\ sdo' = MoveWrite(ModeOfOperation, ProfileVelocityMode)
            /\ mv' = [mv EXCEPT !.pc = "wM"]
            /\ dr' = DrIdle
            /\ ft' = ft
    /\ UNCHANGED <<script, top, log, rxq, drv, errLeft, busLeft>>

(* Line 186: enable again.                                                 *)
MoveReEnable ==
    /\ mv.pc = "wM" /\ SdoReturned("move")
    /\ dr' = MoveDrive("enable")
    /\ sdo' = SdoIdle
    /\ mv' = [mv EXCEPT !.pc = "en2"]
    /\ UNCHANGED <<script, top, ft, log, rxq, drv, errLeft, busLeft>>

(* Line 189, after the enable: read the statusword.                        *)
MoveReadStatus ==
    /\ mv.pc = "en2" /\ DriveFinished("move")
    /\ IF dr.pc = "raise" THEN MoveRaise
       ELSE /\ sdo' = ReadStatusword("move", Arg.node, Arg.timeout)
            /\ mv' = [mv EXCEPT !.pc = "rdS"]
            /\ dr' = DrIdle
            /\ ft' = ft
    /\ UNCHANGED <<script, top, log, rxq, drv, errLeft, busLeft>>

(* Line 190: status_word is None or (status_word & 0x6F) != 0x27.          *)
NotEnabled(status_word) ==
    IsNone(status_word) \/ BitAnd(ValueOf(status_word), 111) # 39

(* Lines 190-191 and 195: enable when not enabled, else set the velocity.  *)
MoveCheckStatus ==
    /\ mv.pc = "rdS" /\ SdoReturned("move")
    /\ IF NotEnabled(sdo.ret)
       THEN /\ dr' = MoveDrive("enable")
            /\ sdo' = SdoIdle
            /\ mv' = [mv EXCEPT !.pc = "en3"]
       ELSE /\ sdo' = MoveWrite(TargetVelocity, Arg.speed)
            /\ mv' = [mv EXCEPT !.pc = "wV"]
            /\ dr' = dr
    /\ UNCHANGED <<script, top, ft, log, rxq, drv, errLeft, busLeft>>

(* Line 195, after the enable: set the velocity.                           *)
MoveSetVelocity ==
    /\ mv.pc = "en3" /\ DriveFinished("move")
    /\ IF dr.pc = "raise" THEN MoveRaise
       ELSE /\ sdo' = MoveWrite(TargetVelocity, Arg.speed)
            /\ mv' = [mv EXCEPT !.pc = "wV"]
            /\ dr' = DrIdle
            /\ ft' = ft
    /\ UNCHANGED <<script, top, log, rxq, drv, errLeft, busLeft>>

(* Lines 203-204: the optional disable that ends the call.                 *)
MoveFinish ==
    IF Arg.disable_after
    THEN /\ dr' = MoveDrive("disable")
         /\ mv' = [mv EXCEPT !.pc = "dis3"]
    ELSE /\ dr' = dr
         /\ mv' = [mv EXCEPT !.pc = "done"]

(* Lines 198-200: fetch the telegrams while the motor moves.               *)
MoveAfterVelocity ==
    /\ mv.pc = "wV" /\ SdoReturned("move")
    /\ sdo' = SdoIdle
    /\ IF Arg.duration > 0
       THEN /\ ft' = FetchCall("move", Arg.duration)
            /\ mv' = [mv EXCEPT !.pc = "ft"]
            /\ dr' = dr
       ELSE MoveFinish /\ ft' = ft
    /\ UNCHANGED <<script, top, log, rxq, drv, errLeft, busLeft>>

(* Line 203, after fetch_telegrams returned.                               *)
MoveAfterFetch ==
    /\ mv.pc = "ft" /\ ft.caller = "move" /\ ft.pc = "done"
    /\ MoveFinish
    /\ ft' = FtIdle
    /\ UNCHANGED <<script, top, sdo, log, rxq, drv, errLeft, busLeft>>

(* Line 204 returned: the call is over.                                    *)
MoveLastDisable ==
    /\ mv.pc = "dis3" /\ DriveFinished("move")
    /\ IF dr.pc = "raise" THEN MoveRaise
       ELSE /\ mv' = [mv EXCEPT !.pc = "done"]
            /\ UNCHANGED <<dr, sdo, ft>>
    /\ UNCHANGED <<script, top, log, rxq, drv, errLeft, busLeft>>

---------------------------------------------------------------------------
(* The caller: the calls of a script, one after the other.                 *)

Call(fn, node_id) == [NoCall EXCEPT !.fn = fn, !.node = node_id]

SdoCalls ==
    {[Call("read", n) EXCEPT !.index = Statusword, !.timeout = t] :
        n \in NodeIds, t \in {200, 1000, 1500}}
    \cup
    {[Call("write", n) EXCEPT !.index = i, !.data = v, !.timeout = 1000] :
        n \in NodeIds, i \in {Controlword}, v \in {15, 63}}

FetchCalls ==
    {[Call("fetch", n) EXCEPT !.duration = s] : n \in NodeIds, s \in {1, 2}}

DriveCalls ==
    {[Call(fn, n) EXCEPT !.timeout = 1000] :
        fn \in {"enable", "disable"}, n \in NodeIds}

MoveCalls ==
    {[Call("move", 127) EXCEPT !.timeout = 1000, !.speed = 800, !.accel = a,
                               !.decel = 1000, !.disable_after = b,
                               !.duration = s] :
        a \in {1000}, b \in BOOLEAN, s \in {0, 1}}

(* The next call of the script begins.                                     *)
Start ==
    /\ script # <<>> /\ top.st # "run"
    /\ LET c == Head(script)
       IN /\ top' = [call |-> c, st |-> "run", n |-> top.n + 1]
          /\ script' = Tail(script)
          /\ log' = <<>>
          /\ sdo' = CASE c.fn = "read" ->
                            SdoReadCall("top", c.node, c.index, 0, c.timeout)
                      [] c.fn = "write" ->
                            SdoWriteCall("top", c.node, c.index, 0, c.data, c.timeout)
                      [] OTHER -> SdoIdle
          /\ ft' = IF c.fn = "fetch" THEN FetchCall("top", c.duration) ELSE FtIdle
          /\ dr' = IF c.fn \in {"enable", "disable"}
                   THEN [DriveCall("top", c.fn, c.node, c.timeout) EXCEPT !.base = 0]
                   ELSE DrIdle
          /\ mv' = IF c.fn = "move" THEN [MvIdle EXCEPT !.pc = "start"] ELSE MvIdle
    /\ UNCHANGED <<rxq, drv, errLeft, busLeft>>

(* The call returned or raised.                                            *)
FinishedAs ==
    CASE top.call.fn \in {"read", "write"} ->
            IF SdoReturned("top") THEN "done" ELSE "run"
      [] top.call.fn = "fetch" ->
            IF ft.caller = "top" /\ ft.pc = "done" THEN "done" ELSE "run"
      [] top.call.fn \in {"enable", "disable"} ->
            IF DriveFinished("top") THEN dr.pc ELSE "run"
      [] top.call.fn = "move" ->
            IF mv.pc \in {"done", "raise"} THEN mv.pc ELSE "run"
      [] OTHER -> "run"

Finish ==
    /\ top.st = "run" /\ FinishedAs # "run"
    /\ top' = [top EXCEPT !.st = FinishedAs]
    /\ UNCHANGED <<script, mv, dr, sdo, ft, log, rxq, drv, errLeft, busLeft>>

---------------------------------------------------------------------------
NoCia == [state |-> "none", start |-> "none", cw |-> 0, seen |-> <<>>]

FreeDrive(acks) ==
    [kind |-> "free", acks |-> acks, od |-> [i \in StoredIdx |-> 0]] @@ NoCia

InitProgram ==
    /\ top = [call |-> NoCall, st |-> "idle", n |-> 0]
    /\ mv = MvIdle /\ dr = DrIdle /\ sdo = SdoIdle /\ ft = FtIdle
    /\ log = <<>> /\ rxq = <<>>

(* Any one call, against a drive that answers as it likes.  The calls of   *)
(* the SDO client and the heartbeat counter run on a bus with other        *)
(* traffic, a channel that may fail and a drive that may confirm writes;   *)
(* enable and disable on a channel that may fail.  To the callers of       *)
(* sdo_read_access all of that shows only as a value or None, which the    *)
(* free drive decides by itself.                                           *)
Init ==
    /\ InitProgram
    /\ \E c \in SdoCalls \cup FetchCalls \cup DriveCalls \cup MoveCalls :
          /\ script = <<c>>
          /\ drv \in {FreeDrive(a) : a \in IF c.fn \in {"read", "write"}
                                            THEN BOOLEAN ELSE {FALSE}}
          /\ errLeft = IF c.fn = "move" THEN 0 ELSE MaxErr
          /\ busLeft = IF c.fn \in {"read", "write", "fetch"} THEN MaxBus ELSE 0

Next ==
    \/ Start \/ Finish
    \/ SdoReadSend \/ SdoReadPoll \/ SdoWriteSend
    \/ FetchPoll
    \/ DrvStart \/ DrvCheckFault \/ DrvAfterReset \/ DrvRecheck
    \/ EnableSettle \/ EnableLoop \/ DisableSettle \/ DisableDone
    \/ MoveReadAccel \/ MoveReadDecel \/ MoveCheckProfile \/ MoveWriteAccel
    \/ MoveWriteDecel \/ MoveReadMode \/ MoveCheckMode \/ MoveSetMode
    \/ MoveReEnable \/ MoveReadStatus \/ MoveCheckStatus \/ MoveSetVelocity
    \/ MoveAfterVelocity \/ MoveAfterFetch \/ MoveLastDisable

Spec == Init /\ [][Next]_vars

(* The program is one thread that runs on: a step that can be taken is     *)
(* taken.                                                                  *)
FairSpec == Spec /\ WF_vars(Next)

(* The same profile twice, against a drive that stores what is written to  *)
(* 0x6083, 0x6084 and 0x6060, shows 0x6060 in 0x6061 and answers every     *)
(* read, on a channel that does not fail and a bus without other traffic.  *)
StoreDrive(accel, mode) ==
    [kind |-> "store", acks |-> FALSE,
     od |-> [i \in StoredIdx |->
                IF i \in {ProfileAccel, ProfileDecel} THEN accel ELSE mode]]
    @@ NoCia

StoreMoves ==
    {[Call("move", 127) EXCEPT !.timeout = 1000, !.speed = 800, !.accel = a,
                               !.decel = 1000, !.disable_after = b,
                               !.duration = 1] :
        a \in {1000, 70000}, b \in BOOLEAN}

InitStore ==
    /\ InitProgram
    /\ \E m \in StoreMoves : script = <<m, m>>
    /\ drv \in {StoreDrive(0, 0), StoreDrive(1000, ProfileVelocityMode)}
    /\ errLeft = 0
    /\ busLeft = 0

SpecStore == InitStore /\ [][Next]_vars

(* A CiA402 drive in any state, its controlword without the fault reset    *)
(* bit, that answers every read, obeys every write and, with acks,         *)
(* confirms every write; a channel that does not fail, a bus without other *)
(* traffic.  The calls: enable or disable, a move, or two calls of the SDO *)
(* client one after the other.                                             *)
CiaDrive(state, acks, accel, mode) ==
    [StoreDrive(accel, mode) EXCEPT !.kind = "cia402", !.acks = acks,
                                    !.state = state, !.start = state]

CiaReads ==
    {[Call("read", 127) EXCEPT !.index = i, !.timeout = 1000] :
        i \in {Statusword, ModeDisplay}}

CiaWrites ==
    {[Call("write", 127) EXCEPT !.index = Controlword, !.data = v,
                                !.timeout = 1000] : v \in {6, 15}}

CiaScripts ==
    {<<c>> : c \in {d \in DriveCalls : d.node = 127} \cup MoveCalls}
    \cup {<<a, b>> : a \in CiaReads \cup CiaWrites, b \in CiaReads}

InitCia ==
    /\ InitProgram
    /\ script \in CiaScripts
    /\ drv \in {CiaDrive(st, a, p[1], p[2]) :
                    st \in CiaStates, a \in BOOLEAN,
                    p \in {<<1000, ProfileVelocityMode>>, <<2000, ProfileVelocityMode>>,
                           <<1000, 1>>}}
    /\ errLeft = 0
    /\ busLeft = 0

SpecCia == InitCia /\ [][Next]_vars

---------------------------------------------------------------------------
(* What the claims speak of.                                               *)

(* The frames the running enable_drive / disable_drive call has sent.      *)
CallLog == SubSeq(log, dr.base + 1, Len(log))

IsWriteTo(f, index) == f.data[1] # 64 /\ f.data[2] + 256 * f.data[3] = index
IsReadOf(f, index) == f.data[1] = 64 /\ f.data[2] + 256 * f.data[3] = index
IsControlWrite(f) == IsWriteTo(f, 24640)
IsStatusRead(f) == IsReadOf(f, 24641)
Written(f) == f.data[5] + 256 * f.data[6] + 65536 * f.data[7] + 16777216 * f.data[8]

(* The values written to the controlword 0x6040, in order.                 *)
RECURSIVE ControlWrites(_)
ControlWrites(fs) ==
    IF fs = <<>> THEN <<>>
    ELSE (IF IsControlWrite(Head(fs)) THEN <<Written(Head(fs))>> ELSE <<>>)
         \o ControlWrites(Tail(fs))

Positions(fs, P(_)) == {i \in 1..Len(fs) : P(fs[i])}

FirstIs(r, mask, pattern) == r # <<>> /\ BitAnd(r[1], mask) = pattern

(* C1: when the first statusword read of enable or disable shows fault     *)
(* reaction active, (s & 0x4F) = 0x0F, the call sends no SDO write frame.  *)
C1_NoWriteInFaultReaction ==
    (dr.fn \in {"enable", "disable"} /\ FirstIs(dr.first, 79, 15))
        => Positions(CallLog, LAMBDA f : f.data[1] # 64) = {}

(* C3: in enable, a first statusword with (s & 0x4F) = 0x08 makes 0x80 the *)
(* first controlword write of the call, written once it is past the fault  *)
(* check and never again, so it precedes all of 0x00, 0x06, 0x07, 0x0F;    *)
(* with any other first statusword, or none, no 0x80 is written.           *)
C3_FaultResetFirst ==
    dr.fn = "enable" =>
        LET cw == ControlWrites(CallLog)
        IN IF FirstIs(dr.first, 79, 8)
           THEN /\ \A i \in 1..Len(cw) : (cw[i] = 128) <=> (i = 1)
                /\ dr.pc \in {"reread", "cmdw", "cmdr", "done", "raise"}
                       => cw # <<>>
           ELSE \A i \in 1..Len(cw) : cw[i] # 128

C3_Witness ==
    /\ dr.fn = "enable" /\ dr.pc = "done" /\ FirstIs(dr.first, 79, 8)
    /\ ControlWrites(CallLog) = <<128, 0, 6, 7, 15>>

(* C4: a completed enable has written 0x00, 0x06, 0x07, 0x0F to the        *)
(* controlword, once each and in this order, each write followed by        *)
(* exactly one statusword read request, whatever the statuswords read; the *)
(* frames before them are those of the fault check.                        *)
C4_EnableSequence ==
    (dr.fn = "enable" /\ dr.pc = "done") =>
        LET L == CallLog
            n == Len(L)
            reset == FirstIs(dr.first, 79, 8)
            k == IF reset THEN 3 ELSE 1
        IN /\ n = k + 8
           /\ \A j \in 1..4 :
                 /\ IsControlWrite(L[k + 2 * j - 1])
                 /\ Written(L[k + 2 * j - 1]) = <<0, 6, 7, 15>>[j]
                 /\ IsStatusRead(L[k + 2 * j])
           /\ \A j \in 1..k : IsControlWrite(L[j]) => Written(L[j]) = 128

C4_Witness ==
    /\ dr.fn = "enable" /\ dr.pc = "done" /\ FirstIs(dr.first, 111, 39)
    /\ ControlWrites(CallLog) = <<0, 6, 7, 15>>
    /\ Len(CallLog) = 9

(* The read call in progress: the ids it accepts, what it has received.    *)
Reading == sdo.fn = "read"
ReadReturned == sdo.fn = "read" /\ sdo.pc = "ret"
Accepted(f) == f.id = 1536 + sdo.node - 128
AcceptedAt == {i \in 1..Len(sdo.rcvd) : Accepted(sdo.rcvd[i])}
LittleEndian47(f) ==
    f.data[5] + 256 * f.data[6] + 65536 * f.data[7] + 16777216 * f.data[8]

(* C2 as stated: sdo_read_access returns a value iff a frame with id       *)
(* 0x600 + node_id - 0x80 was received before the deadline.                *)
C2_ValueIffMatchBeforeDeadline ==
    ReadReturned =>
        ((sdo.ret # <<>>) <=> (AcceptedAt # {} /\ sdo.now < sdo.timeout))

(* C2, amended: sdo_read_access returns a value iff its polling loop       *)
(* received a frame with id 0x600 + node_id - 0x80 from a channel.read     *)
(* begun before the deadline (the frame may come in up to the receive      *)
(* timeout later); the value is that of bytes 4..7 of the first such       *)
(* frame, which is the last frame read; a frame with any other id is       *)
(* dropped and the loop goes on.                                           *)
C2_ValueIffMatchInPoll ==
    Reading =>
        /\ (sdo.ret # <<>>) <=> (sdo.pc = "ret" /\ AcceptedAt # {})
        /\ AcceptedAt \subseteq {Len(sdo.rcvd)}
        /\ AcceptedAt # {} =>
              /\ sdo.pc = "ret"
              /\ sdo.ret = <<LittleEndian47(sdo.rcvd[Len(sdo.rcvd)])>>
              /\ sdo.polled < sdo.timeout
              /\ sdo.now <= sdo.polled + 1000

C2_Witness ==
    /\ ReadReturned /\ sdo.ret = <<1591>> /\ Len(sdo.rcvd) = 3
    /\ sdo.rcvd[1].id = 1792 + sdo.node
    /\ sdo.rcvd[2].id = 1408 + OtherNode
    /\ sdo.now >= sdo.timeout

(* C8 as stated: without a frame with the response id, sdo_read_access     *)
(* returns None, not before timeout_ms and not after timeout_ms plus one   *)
(* receive timeout.                                                        *)
C8_TimeoutWindow ==
    (ReadReturned /\ AcceptedAt = {}) =>
        /\ sdo.ret = <<>>
        /\ sdo.now >= sdo.timeout
        /\ sdo.now <= sdo.timeout + 1000

(* C8, amended: without a frame with the response id, and without a        *)
(* transport error of the send or of a receive, sdo_read_access returns    *)
(* None, not before timeout_ms and not after timeout_ms plus one receive   *)
(* timeout; CanNoMsg makes the loop poll again, the time stays below that  *)
(* bound while it polls, and every call that began returns.                *)
InWindowNoError ==
    /\ (ReadReturned /\ AcceptedAt = {} /\ sdo.fail = "no") =>
          /\ sdo.ret = <<>>
          /\ sdo.now >= sdo.timeout
          /\ sdo.now < sdo.timeout + 1000
    /\ (Reading /\ sdo.pc = "poll") =>
          /\ sdo.fail = "no"
          /\ sdo.now < sdo.timeout + 1000

C8_TimeoutWindowNoError ==
    /\ []InWindowNoError
    /\ (Reading /\ sdo.pc \in {"send", "poll"}) ~> ReadReturned

C8_Witness ==
    /\ ReadReturned /\ sdo.ret = <<>> /\ sdo.fail = "no"
    /\ sdo.timeout = 1500 /\ sdo.now = 2000 /\ sdo.recvs = 2
    /\ sdo.rcvd = <<>>

(* C9: a failed send makes sdo_read_access return None without any         *)
(* receive; a receive that raises a transport error is the last one and    *)
(* the call returns None; the request is handed to channel.write at most   *)
(* once per call.                                                          *)
C9_TransportFailureEndsRead ==
    Reading =>
        /\ sdo.sends <= 1
        /\ sdo.caller = "top" => Len(log) = sdo.sends
        /\ sdo.pc \in {"poll", "ret"} => sdo.sends = 1
        /\ sdo.fail = "send" =>
              sdo.pc = "ret" /\ sdo.ret = <<>> /\ sdo.recvs = 0
        /\ sdo.fail = "recv" => sdo.pc = "ret" /\ sdo.ret = <<>>

C9_Witness ==
    /\ ReadReturned /\ sdo.fail = "recv" /\ sdo.recvs = 3
    /\ Len(sdo.rcvd) = 2 /\ sdo.now < sdo.timeout

(* C10: sdo_write_access hands one frame with id 0x600 + node_id to        *)
(* channel.write, once, also when that fails, and reads nothing: the       *)
(* receive buffer is as the call found it, plus the drive's confirmation   *)
(* of the write when the drive sent one.                                   *)
C10_WriteSendsOnceReadsNothing ==
    (sdo.fn = "write" /\ sdo.pc = "ret") =>
        /\ sdo.sends = 1 /\ sdo.recvs = 0
        /\ log # <<>>
        /\ log[Len(log)].id = 1536 + sdo.node
        /\ IsWriteTo(log[Len(log)], sdo.index)
        /\ sdo.caller = "top" => Len(log) = 1
        /\ \A i \in 1..Len(sdo.q0) : i <= Len(rxq) /\ rxq[i] = sdo.q0[i]
        /\ (drv.acks /\ sdo.fail = "no" /\ Len(sdo.q0) < MaxQueue) =>
              /\ Len(rxq) = Len(sdo.q0) + 1
              /\ rxq[Len(rxq)].id = 1408 + sdo.node
              /\ rxq[Len(rxq)].data[1] = 96

C10_Witness ==
    /\ sdo.fn = "write" /\ sdo.pc = "ret" /\ sdo.fail = "no" /\ drv.acks
    /\ Len(rxq) = 1 /\ rxq[1].id = 1408 + sdo.node /\ rxq[1].data[1] = 96

(* The heartbeat window in progress.                                       *)
RECURSIVE CountId(_, _)
CountId(ids, id) ==
    IF ids = <<>> THEN 0
    ELSE (IF Head(ids) = id THEN 1 ELSE 0) + CountId(Tail(ids), id)

(* C7 as stated: the heartbeat count is the number of frames received in   *)
(* the window whose id is 0x700 + node_id, node_id the caller's node.      *)
C7_CountsCallersNode ==
    ft.pc \in {"poll", "done"} =>
        ft.count = CountId(ft.rcvd, 1792 + top.call.node)

(* C7, amended: the heartbeat count is the number of frames received in    *)
(* the window whose id is 0x700 + 127, whatever the caller's node_id: each *)
(* such frame raises it by one, a frame with any other id (the heartbeat   *)
(* of another node included) leaves it as it is.                           *)
C7_CountsNode127 ==
    ft.pc \in {"poll", "done"} => ft.count = CountId(ft.rcvd, 1919)

C7_Witness ==
    /\ ft.pc = "done" /\ top.call.node = 5 /\ ft.count = 1
    /\ CountId(ft.rcvd, 1797) = 1 /\ CountId(ft.rcvd, 1919) = 1

(* The move_motor_in_profile_velocity call in progress.                    *)
Moving == top.call.fn = "move"
MoveEnded == Moving /\ mv.pc \in {"done", "raise"}
ModeWrites == Positions(log, LAMBDA f : IsWriteTo(f, 24672))
VelocityWrites == Positions(log, LAMBDA f : IsWriteTo(f, 24831))
ProfileWrites ==
    Positions(log, LAMBDA f : IsWriteTo(f, 24707) \/ IsWriteTo(f, 24708))

RECURSIVE HasRun(_, _)
HasRun(vs, run) ==
    /\ Len(vs) >= Len(run)
    /\ \/ SubSeq(vs, 1, Len(run)) = run
       \/ HasRun(Tail(vs), run)

(* C5: against the storing drive, the second of two calls with the same    *)
(* profile sends no write to 0x6083, 0x6084 or 0x6060.                     *)
C5_SecondCallRewritesNothing ==
    (Moving /\ top.n = 2) => (ProfileWrites = {} /\ ModeWrites = {})

(* C6: 0x6060 is written only after 0x6061 read something other than 3;    *)
(* a 0x00 controlword write precedes the 0x6060 write, and once the call   *)
(* has written 0x60FF or is over, the controlword writes 0x00, 0x06, 0x07, *)
(* 0x0F follow the 0x6060 write, before the 0x60FF write.                  *)
C6_ModeChangeBracketed ==
    Moving =>
        \A k \in ModeWrites :
            /\ mv.mode_of_operation # <<3>>
            /\ \E j \in 1..(k - 1) :
                  IsControlWrite(log[j]) /\ Written(log[j]) = 0
            /\ (MoveEnded \/ VelocityWrites # {}) =>
                  LET last == IF VelocityWrites = {} THEN Len(log)
                              ELSE (CHOOSE v \in VelocityWrites : TRUE) - 1
                  IN HasRun(ControlWrites(SubSeq(log, k + 1, last)),
                            <<0, 6, 7, 15>>)

(* C11: the write request carries command 0x2B for a value that fits 2     *)
(* bytes and 0x23 for one that needs 4, in a frame of 8 bytes whose bytes  *)
(* 4..7, decoded little-endian as sdo_read_access decodes them, give the   *)
(* value written.                                                          *)
C11_WriteRoundTrip ==
    (sdo.fn = "write" /\ sdo.pc = "ret") =>
        LET f == log[Len(log)]
        IN /\ Len(f.data) = 8
           /\ f.data[1] = (IF sdo.data < 65536 THEN 43 ELSE 35)
           /\ LittleEndian47(f) = sdo.data

(* The heartbeat window: every turn of the loop began before the end of    *)
(* the window and took at most one receive timeout.                        *)
Fetching == ft.pc \in {"poll", "done"}
FetchReturned == ft.pc = "done"
WindowKept ==
    /\ FetchReturned => ft.now >= ft.duration * 1000
    /\ Fetching => ft.now < ft.duration * 1000 + 1000

(* C12 as stated: fetch_telegrams does not return before duration_s has    *)
(* elapsed and returns the final count.                                    *)
C12_WindowThenCount ==
    /\ WindowKept
    /\ FetchReturned => ft.ret = <<ft.count>>

(* C12, amended: for every mix of CanNoMsg, CanlibException and frames,    *)
(* fetch_telegrams polls until duration_s has elapsed, never returns       *)
(* before, and every call that began returns; the final count is printed   *)
(* and the caller gets None.                                               *)
C12_WindowThenNone ==
    /\ [](WindowKept /\ (FetchReturned => ft.ret = <<>>))
    /\ (ft.pc = "poll") ~> FetchReturned

C12_Witness ==
    /\ FetchReturned /\ ft.caller = "top" /\ ft.duration = 2
    /\ ft.errs = 1 /\ ft.nomsgs = 1 /\ ft.count = 1 /\ Len(ft.rcvd) = 2
    /\ ft.ret = <<>>

AllWrites == Positions(log, LAMBDA f : f.data[1] # 64)
ControlWritesAfter(v) == {k \in Positions(log, IsControlWrite) : k > v}

(* C13: once 0x60FF is written, no controlword write follows it while the  *)
(* call sets the velocity and counts heartbeats; a call with disable_after *)
(* set ends with a controlword 0x00 write that follows the 0x60FF write    *)
(* and is the last write of the call; a call without it sends no           *)
(* controlword write after the 0x60FF write.                               *)
C13_DisableAfterIsLast ==
    (Moving /\ VelocityWrites # {}) =>
        LET v == CHOOSE k \in VelocityWrites : TRUE
        IN /\ mv.pc \in {"wV", "ft"} => ControlWritesAfter(v) = {}
           /\ IF Arg.disable_after
              THEN MoveEnded =>
                      \E k \in ControlWritesAfter(v) :
                          /\ Written(log[k]) = 0
                          /\ \A j \in AllWrites : j <= k
              ELSE ControlWritesAfter(v) = {}

(* The controlword writes an enable_drive or disable_drive call makes      *)
(* after the fault check.                                                  *)
Remaining == IF dr.fn = "enable" THEN <<0, 6, 7, 15>> ELSE <<0>>

(* C15: no statusword read, timed out or answered, aborts enable or        *)
(* disable: the call never leaves by an exception, and when it is over it  *)
(* has made its remaining controlword writes.                              *)
C15_StatusReadNeverAborts ==
    dr.fn \in {"enable", "disable"} =>
        /\ dr.pc # "raise"
        /\ dr.pc = "done" =>
              LET cw == ControlWrites(CallLog)
              IN /\ Len(cw) >= Len(Remaining)
                 /\ SubSeq(cw, Len(cw) - Len(Remaining) + 1, Len(cw)) = Remaining

(* C18: a disable_drive call writes only 0x80 and 0x00 to the controlword; *)
(* 0x80 at most once, as the first write and only when the first           *)
(* statusword has (s & 0x4F) = 0x08; when the call is over it has written  *)
(* 0x00 exactly once, as its last write, followed by one statusword read   *)
(* request that ends the call, whatever that read gives.                   *)
C18_DisableWritesZeroOnce ==
    dr.fn = "disable" =>
        LET L == CallLog
            cw == ControlWrites(L)
        IN /\ \A i \in 1..Len(cw) :
                 /\ cw[i] \in {0, 128}
                 /\ cw[i] = 128 => (i = 1 /\ FirstIs(dr.first, 79, 8))
           /\ \A j \in AllWrites : j > dr.base => IsControlWrite(log[j])
           /\ DriveFinished(dr.caller) =>
                 /\ Cardinality({i \in 1..Len(cw) : cw[i] = 0}) = 1
                 /\ cw[Len(cw)] = 0
                 /\ Len(L) >= 2
                 /\ IsControlWrite(L[Len(L) - 1])
                 /\ IsStatusRead(L[Len(L)])

(* Step 1 of move_motor_in_profile_velocity.                               *)
ReadBackDiffers == mv.current_accel # <<Arg.accel>> \/ sdo.ret # <<Arg.decel>>
PairWritten ==
    mv.pc \notin {"start", "rdA", "rdD", "dis1", "wA"}
        /\ ~(mv.pc = "wD" /\ sdo.pc = "send")

(* The writes of 0x6083 and 0x6084 in the frames sent: none, or 0x6083 at  *)
(* k and 0x6084 at k + 1 with the requested values (their low 16 bits),    *)
(* after a controlword 0x00 write of the same call.                        *)
ProfileWrittenAsPair ==
    (Moving /\ ProfileWrites # {}) =>
        LET k == CHOOSE i \in ProfileWrites : \A j \in ProfileWrites : i <= j
        IN /\ IsWriteTo(log[k], 24707)
           /\ Written(log[k]) = Arg.accel % 65536
           /\ ProfileWrites \subseteq {k, k + 1}
           /\ PairWritten <=> (k + 1) \in ProfileWrites
           /\ (k + 1) \in ProfileWrites =>
                 /\ IsWriteTo(log[k + 1], 24708)
                 /\ Written(log[k + 1]) = Arg.decel % 65536
           /\ \E j \in 1..(k - 1) :
                 IsControlWrite(log[j]) /\ Written(log[j]) = 0

(* The steps of step 1: the comparison of line 176 sends the call to the   *)
(* disable exactly when a value read back differs from the requested one   *)
(* (a read that timed out differs), and otherwise on to the read of 0x6061 *)
(* with only the two read requests sent; the write of 0x6083 begins only   *)
(* when that disable has returned, and a frame for 0x6083 or 0x6084 is     *)
(* sent only by these two writes.                                          *)
ProfileStep ==
    Moving =>
        /\ (mv.pc = "rdD" /\ mv'.pc # "rdD") =>
               IF ReadBackDiffers
               THEN mv'.pc = "dis1" /\ dr'.fn = "disable"
               ELSE mv'.pc = "rdM" /\ log' = log /\ Len(log) = 2
                    /\ AllWrites = {}
        /\ (mv'.pc = "dis1" /\ mv.pc # "dis1") => mv.pc = "rdD"
        /\ (mv'.pc = "wA" /\ mv.pc # "wA") =>
               (mv.pc = "dis1" /\ dr.fn = "disable" /\ dr.pc = "done")
        /\ (mv'.pc = "wD" /\ mv.pc # "wD") => mv.pc = "wA"
        /\ (log' # log /\ log' # <<>>
               /\ (IsWriteTo(log'[Len(log')], 24707)
                      \/ IsWriteTo(log'[Len(log')], 24708))) =>
               mv.pc \in {"wA", "wD"}

ProfileStepsAsCoded == []ProfileWrittenAsPair /\ [][ProfileStep]_vars

(* By ProfileStep the third frame of the call tells how the comparison of  *)
(* line 176 went: the statusword read that opens disable_drive when a      *)
(* value read back differed, the read of 0x6061 when both were equal.      *)
ComparisonMade == Moving /\ Len(log) >= 3
FoundDifferent == IsStatusRead(log[3])

(* C17: 0x6083 and 0x6084 are written only when the acceleration or        *)
(* deceleration read back differs from the requested one, and then both    *)
(* are written, 0x6083 before 0x6084, after a controlword 0x00 write made  *)
(* earlier in the same call; when both read values equal the requested     *)
(* ones, step 1 sends no write and no disable.                             *)
C17_ProfileWrittenWhenDiffers ==
    /\ ProfileWrittenAsPair
    /\ ComparisonMade =>
          IF FoundDifferent
          THEN MoveEnded => Cardinality(ProfileWrites) = 2
          ELSE ProfileWrites = {} /\ IsReadOf(log[3], 24673)

(* The response of the drive to a read request: an upload response (0x43)  *)
(* for the index asked for.  The channel delivers in order, so the         *)
(* response to the latest request is the newest frame: a read that took    *)
(* it leaves the receive buffer empty.                                     *)
IsAnswerTo(f, s) ==
    f.id = 1408 + s.node /\ f.data[1] = 67 /\ FrameIndex(f) = s.index

(* C14: against a drive that answers every request, read or write, with    *)
(* one frame, a value returned by sdo_read_access was decoded from the     *)
(* response to this very request.                                          *)
C14_ValueFromOwnResponse ==
    (drv.kind = "cia402" /\ drv.acks /\ ReadReturned /\ sdo.ret # <<>>) =>
        /\ IsAnswerTo(sdo.rcvd[Len(sdo.rcvd)], sdo)
        /\ rxq = <<>>

(* An enable_drive call against the CiA402 drive that did not start in     *)
(* fault reaction active has returned.                                     *)
EnableReturned ==
    /\ drv.kind = "cia402" /\ drv.start # "FaultReactionActive"
    /\ dr.fn = "enable" /\ dr.pc = "done"

EnabledAtVelocity ==
    (Moving /\ mv.pc = "wV" /\ drv.kind = "cia402"
        /\ drv.start # "FaultReactionActive") =>
        /\ drv.state = "OperationEnabled"
        /\ BitAnd(StatusOf(drv.state), 111) = 39

(* C19: a move_motor_in_profile_velocity call writes 0x60FF at most once,  *)
(* after all its writes to 0x6083, 0x6084 and 0x6060, and exactly once     *)
(* when it is over; the CiA402 drive is in operation enabled when 0x60FF   *)
(* is written.                                                             *)
C19_VelocityOnceWhenEnabled ==
    /\ Moving =>
          /\ Cardinality(VelocityWrites) <= 1
          /\ \A v \in VelocityWrites :
                \A k \in ProfileWrites \cup ModeWrites : k < v
          /\ MoveEnded => Cardinality(VelocityWrites) = 1
    /\ EnabledAtVelocity

====
